---- MODULE Spec2Model ----
(***************************************************************************)
(* Game of Hex (GameOfHex.cpp): the board as a graph with four virtual     *)
(* nodes, the BFS connectivity test, the Monte Carlo move selection and    *)
(* the turn loop.                                                          *)
(*                                                                         *)
(* Memory model.  vector<int> adjMatrix and vector<char> sign are flat     *)
(* arrays indexed x * numVertices + y, exactly as the code indexes them.   *)
(* An index outside an array addresses memory that belongs to no object    *)
(* of the program: a write there changes no array element; a read there    *)
(* returns what the same call wrote there before (the slots behind         *)
(* visited in isReachable) and an arbitrary value otherwise (the sign      *)
(* that validMove reads in front of the array).                            *)
(***************************************************************************)
EXTENDS Integers, Sequences, FiniteSets, TLC

VARIABLES
    sizeofBoard,  \* static int sizeofBoard
    g,            \* Graph g of Game::start: [adjMatrix, sign]
    oracle,       \* history: what isReachable answers for X and for O on g,
                  \* and whether a stone was placed after one answer was true
    mc,           \* the locals of monteCarloSims and probMonteCarlo
    loop,         \* where Game::start is: "off", "run", "ai", "over", "quit"
    moveCount,    \* Game::moveCount
    movesAI,      \* Game::movesAI
    valid,        \* Game::valid
    winner,       \* Game::winner
    user,         \* Game::user
    goesNext,     \* Game::goesNext
    entry         \* history: the last command given to playerMove, what it
                  \* returned and the indices it used outside the sign array

vars == <<sizeofBoard, g, oracle, mc, loop, moveCount, movesAI, valid, winner,
          user, goesNext, entry>>

\* Largest board size for the placements of Spec (the program accepts 2..11).
MaxN == 3

\* Largest board size for which the move selection and the turn loop run.
MaxPlayN == 2

\* Largest number of simulations per candidate (the program uses SIMUL = 1000).
MaxSims == 2

\* const int INFINIT = INT_MAX
INFINIT == 2147483647

BoardSizes == 2..MaxN

(***************************************************************************)
(* class Graph                                                             *)
(***************************************************************************)
\* Graph g(sizeofBoard * sizeofBoard + 4)
numVertices(N) == N * N + 4

\* Graph::V
V(N) == numVertices(N) - 4

vnodeWest(N) == N * N
vnodeEast(N) == N * N + 1
vnodeNorth(N) == N * N + 2
vnodeSouth(N) == N * N + 3

\* startNode[1..2], endNode[1..2]
get_startNode(N, playerNum) == IF playerNum = 1 THEN vnodeNorth(N) ELSE vnodeWest(N)
\* Mutant of get_endNode: South is the end node of both players.
get_endNode_SouthForBoth(N, playerNum) == vnodeSouth(N)

get_endNode(N, playerNum) == IF playerNum = 1 THEN vnodeSouth(N) ELSE vnodeEast(N)

\* The elements of adjMatrix and of sign: numVertices * numVertices of each.
InArray(N, idx) == idx >= 0 /\ idx < numVertices(N) * numVertices(N)

\* Graph::get_edge_value, for an index inside adjMatrix
get_edge_value(N, gr, x, y) == gr.adjMatrix[x * numVertices(N) + y]

\* Graph::adjacent
adjacent(N, gr, x, y) ==
    LET e == get_edge_value(N, gr, x, y) IN e # INFINIT /\ e # 0

\* Graph::set_edge_value: both directions; an index outside adjMatrix changes
\* no element of it.
set_edge_value(N, gr, x, y, value) ==
    LET i1 == x * numVertices(N) + y
        i2 == y * numVertices(N) + x
        m1 == IF InArray(N, i1) THEN [gr.adjMatrix EXCEPT ![i1] = value]
              ELSE gr.adjMatrix
        m2 == IF InArray(N, i2) THEN [m1 EXCEPT ![i2] = value] ELSE m1
    IN [gr EXCEPT !.adjMatrix = m2]

\* Graph::get_sign, for an index inside sign
get_sign(N, gr, x, y) == gr.sign[x * numVertices(N) + y]

\* Graph::set_sign: an index outside sign changes no element of it.
set_sign(N, gr, x, y, s) ==
    LET i == x * numVertices(N) + y
    IN IF InArray(N, i) THEN [gr EXCEPT !.sign[i] = s] ELSE gr

\* set_edge_value(x, ys[1], 1); set_edge_value(x, ys[2], 1); ...
RECURSIVE SetEdgesTo(_, _, _, _)
SetEdgesTo(N, gr, x, ys) ==
    IF ys = <<>> THEN gr
    ELSE SetEdgesTo(N, set_edge_value(N, gr, x, Head(ys), 1), x, Tail(ys))

\* The integers lo, lo + step, ... below hi, as the for loops enumerate them.
RECURSIVE Stride(_, _, _)
Stride(lo, hi, step) ==
    IF lo >= hi THEN <<>> ELSE <<lo>> \o Stride(lo + step, hi, step)

\* Graph::Graph(int numVertices), with sizeofBoard = N
NewGraph(N) ==
    LET nv == numVertices(N)
        g0 == [adjMatrix |-> [k \in 0..(nv * nv - 1) |->
                                 IF k \div nv = k % nv THEN 0 ELSE INFINIT],
               sign |-> [k \in 0..(nv * nv - 1) |-> "."]]
        g1 == set_sign(N, g0, vnodeNorth(N) \div N, vnodeNorth(N) % N, "X")
        g2 == SetEdgesTo(N, g1, vnodeNorth(N), Stride(0, N, 1))
        g3 == set_sign(N, g2, vnodeSouth(N) \div N, vnodeSouth(N) % N, "X")
        g4 == SetEdgesTo(N, g3, vnodeSouth(N), Stride(V(N) - N, V(N), 1))
        g5 == set_sign(N, g4, vnodeWest(N) \div N, vnodeWest(N) % N, "O")
        g6 == SetEdgesTo(N, g5, vnodeWest(N), Stride(0, V(N), N))
        g7 == set_sign(N, g6, vnodeEast(N) \div N, vnodeEast(N) % N, "O")
        g8 == SetEdgesTo(N, g7, vnodeEast(N), Stride(N - 1, V(N), N))
    IN g8

\* 'X' for player 1, 'O' for player 2
SignOf(playerNum) == IF playerNum = 1 THEN "X" ELSE "O"

(***************************************************************************)
(* class Evaluate                                                          *)
(***************************************************************************)
\* The nodes 0 .. V()+3 in the order of the loop over y.
Nodes(N) == [i \in 1..(V(N) + 4) |-> i - 1]

\* Mutant of Neighbours: the two sign tests are left out.
Neighbours_AnySign(N, gr, s, sgn) ==
    SelectSeq(Nodes(N), LAMBDA y : adjacent(N, gr, s, y))

\* The first loop of the while body: the nodes y = 0 .. V()+3, in order, that
\* are adjacent to s and carry the sign, when s carries it too.
Neighbours(N, gr, s, sgn) ==
    IF get_sign(N, gr, s \div N, s % N) # sgn THEN <<>>
    ELSE SelectSeq(Nodes(N),
                   LAMBDA y : adjacent(N, gr, s, y)
                              /\ get_sign(N, gr, y \div N, y % N) = sgn)

\* The second loop of the while body, over the list adj from position k:
\* found = the destination is in adj; otherwise every node of adj that is not
\* marked is marked and enqueued.
RECURSIVE ScanAdj(_, _, _, _, _)
ScanAdj(adj, k, d, visited, queue) ==
    IF k > Len(adj) THEN [found |-> FALSE, visited |-> visited, queue |-> queue]
    ELSE IF adj[k] = d THEN [found |-> TRUE, visited |-> visited, queue |-> queue]
    ELSE IF ~visited[adj[k]]
         THEN ScanAdj(adj, k + 1, d, [visited EXCEPT ![adj[k]] = TRUE],
                      Append(queue, adj[k]))
         ELSE ScanAdj(adj, k + 1, d, visited, queue)

\* while (!queue.empty()): adj is never cleared, it grows with every node
\* taken from the queue.
RECURSIVE BFSLoop(_, _, _, _, _, _, _)
BFSLoop(N, gr, d, sgn, queue, adj, visited) ==
    IF queue = <<>> THEN FALSE
    ELSE LET s == Head(queue)
             adj1 == adj \o Neighbours(N, gr, s, sgn)
             r == ScanAdj(adj1, 1, d, visited, Tail(queue))
         IN IF r.found THEN TRUE
            ELSE BFSLoop(N, gr, d, sgn, r.queue, adj1, r.visited)

\* new bool[g.V()]: the number of elements of visited
visitedLen(N) == V(N)

\* for (int i = 0; i < g.V() + 4; i++) visited[i] = false: the indices written
InitLoopIndices(N) == 0..(V(N) + 3)

\* The indices i of visited[i] that the second loop of the while body uses
\* over adj from position k: every node before the destination is tested,
\* and marked when it was not.
RECURSIVE ScanAdjIndices(_, _, _)
ScanAdjIndices(adj, k, d) ==
    IF k > Len(adj) \/ adj[k] = d THEN {}
    ELSE {adj[k]} \cup ScanAdjIndices(adj, k + 1, d)

\* The indices of visited used by the while loop, which runs as BFSLoop.
RECURSIVE BFSLoopIndices(_, _, _, _, _, _, _)
BFSLoopIndices(N, gr, d, sgn, queue, adj, visited) ==
    IF queue = <<>> THEN {}
    ELSE LET s == Head(queue)
             adj1 == adj \o Neighbours(N, gr, s, sgn)
             r == ScanAdj(adj1, 1, d, visited, Tail(queue))
         IN ScanAdjIndices(adj1, 1, d)
            \cup (IF r.found THEN {}
                  ELSE BFSLoopIndices(N, gr, d, sgn, r.queue, adj1, r.visited))

\* Every index of visited that a call of isReachable reads or writes.
visitedIndices(N, gr, s, d, sgn) ==
    IF s = d THEN {}
    ELSE InitLoopIndices(N) \cup {s}
         \cup BFSLoopIndices(N, gr, d, sgn, <<s>>, <<>>,
                             [[i \in 0..(V(N) + 3) |-> FALSE] EXCEPT ![s] = TRUE])

\* Evaluate::isReachable.  visited is written at 0 .. V()+3; the four
\* locations from visitedLen on lie behind the array and hold what the loop
\* and the marking of s stored there.
isReachable(N, gr, s, d, sgn) ==
    IF s = d THEN TRUE
    ELSE BFSLoop(N, gr, d, sgn, <<s>>, <<>>,
                 [[i \in 0..(V(N) + 3) |-> FALSE] EXCEPT ![s] = TRUE])

\* Mutant of winnerAI: only the side passed in is checked.
winnerAI_OnlyCaller(N, gr, playerNum) ==
    IF isReachable(N, gr, get_startNode(N, playerNum), get_endNode(N, playerNum),
                   SignOf(playerNum))
    THEN playerNum ELSE 0

\* Evaluate::winnerAI
winnerAI(N, gr, playerNum) ==
    IF playerNum = 1
    THEN IF isReachable(N, gr, get_startNode(N, playerNum), get_endNode(N, playerNum), "X")
         THEN playerNum
         ELSE IF isReachable(N, gr, get_startNode(N, 2), get_endNode(N, 2), "O")
              THEN 2 ELSE 0
    ELSE IF isReachable(N, gr, get_startNode(N, playerNum), get_endNode(N, playerNum), "O")
         THEN playerNum
         ELSE IF isReachable(N, gr, get_startNode(N, 1), get_endNode(N, 1), "X")
              THEN 1 ELSE 0

(***************************************************************************)
(* class hexGame                                                           *)
(***************************************************************************)
\* Mutant of setEdgesNodes: the diagonals point the other way, to
\* (x-1, y-1) and (x+1, y+1).
setEdgesNodes_WrongDiagonal(N, x, y) ==
    (IF x > 0
     THEN <<(x - 1) * N + y>>
          \o (IF y > 0 THEN <<(x - 1) * N + y - 1>> ELSE <<>>)
     ELSE <<>>)
    \o (IF y > 0 THEN <<x * N + y - 1>> ELSE <<>>)
    \o (IF y < N - 1
        THEN <<x * N + y + 1>>
             \o (IF x < N - 1 THEN <<(x + 1) * N + y + 1>> ELSE <<>>)
        ELSE <<>>)
    \o (IF x < N - 1 THEN <<(x + 1) * N + y>> ELSE <<>>)

\* hexGame::setEdges: the neighbours of (x, y) in the order the code sets them
setEdgesNodes(N, x, y) ==
    (IF x > 0
     THEN <<(x - 1) * N + y>>
          \o (IF y < N - 1 THEN <<(x - 1) * N + y + 1>> ELSE <<>>)
     ELSE <<>>)
    \o (IF y > 0
        THEN <<x * N + y - 1>>
             \o (IF x < N - 1 THEN <<(x + 1) * N + y - 1>> ELSE <<>>)
        ELSE <<>>)
    \o (IF y < N - 1 THEN <<x * N + y + 1>> ELSE <<>>)
    \o (IF x < N - 1 THEN <<(x + 1) * N + y>> ELSE <<>>)

setEdges(N, x, y, gr) == SetEdgesTo(N, gr, x * N + y, setEdgesNodes(N, x, y))

\* set_sign(x, y, sign); setEdges(x, y, g): how playerMove, aiMove and
\* probMonteCarlo put a stone on a graph.
PlaceOn(N, gr, x, y, s) == setEdges(N, x, y, set_sign(N, gr, x, y, s))

Cells(N) == (0..(N - 1)) \X (0..(N - 1))

EmptyCells(N, gr) == {c \in Cells(N) : get_sign(N, gr, c[1], c[2]) = "."}

(***************************************************************************)
(* Human entries: coordinates, validMove, playerMove.  A command is the    *)
(* sequence of the ASCII codes of its characters.                          *)
(***************************************************************************)
CharA == 65
CharK == 75
Char0 == 48
Char1 == 49

\* toupper, isdigit of <cctype>
toupper(c) == IF c >= 97 /\ c <= 122 THEN c - 32 ELSE c
isdigit(c) == c >= 48 /\ c <= 57

\* command[i], 0-based; command[command.length()] is the terminating '\0'.
CharAt(command, i) == IF i < Len(command) THEN command[i + 1] ELSE 0

\* std::stoi of a string of decimal digits
RECURSIVE stoi(_)
stoi(str) ==
    IF str = <<>> THEN 0
    ELSE 10 * stoi(SubSeq(str, 1, Len(str) - 1)) + (str[Len(str)] - 48)

\* coordinates(command): x from the digits after the letter, y from the letter
coordinates(command) ==
    LET substring == SubSeq(command, 2, IF Len(command) < 3 THEN Len(command) ELSE 3)
    IN <<stoi(substring) - 1, command[1] - CharA>>

\* sign[x * numVertices + y] as validMove reads it: an index outside the
\* array reads memory the program never wrote, whose content is `garbage`.
ReadSign(N, gr, x, y, garbage) ==
    IF InArray(N, x * numVertices(N) + y) THEN get_sign(N, gr, x, y) ELSE garbage

\* The three format tests of validMove (lines 439-463): TRUE when none of
\* them rejects the command.
FormatOk(N, command) ==
    LET maxNum == Char0 + N
        maxLetter == CharA + N - 1
        len == Len(command)
        c0 == CharAt(command, 0)
        c1 == CharAt(command, 1)
        c2 == CharAt(command, 2)
    IN IF (len > 2 /\ N < 10) \/ c1 > maxNum \/ c0 > maxLetter THEN FALSE
       ELSE IF len < 2 \/ len > 3 \/ c0 < CharA \/ c0 > CharK THEN FALSE
       ELSE IF \/ ~isdigit(c1)
               \/ (len = 3 /\ ~isdigit(c2))
               \/ (len = 3 /\ (c1 > Char1 \/ c2 > Char1))
               \/ (N = 10 /\ len = 3 /\ (c1 > Char1 \/ c2 > Char0))
            THEN FALSE
       ELSE TRUE

\* Mutant of validMove: the final test of the cell's sign is left out.
validMove_NoOccupiedTest(N, gr, command, garbage) == FormatOk(N, command)

\* hexGame::validMove (the "-1" entry, which ends the program, is the action
\* Quit of the turn loop)
validMove(N, gr, command, garbage) ==
    /\ FormatOk(N, command)
    /\ LET xy == coordinates(command)
       IN ReadSign(N, gr, xy[1], xy[2], garbage) = "."

\* hexGame::playerMove: the value returned and the graph afterwards
playerMove(N, gr, command, playerNum, garbage) ==
    LET cmd == [command EXCEPT ![1] = toupper(command[1])]
        ok == validMove(N, gr, cmd, garbage)
        xy == coordinates(cmd)
    IN [valid |-> ok,
        g |-> IF ok THEN PlaceOn(N, gr, xy[1], xy[2], SignOf(playerNum)) ELSE gr]

\* The sign indices outside the array that playerMove reads (get_sign in
\* validMove) and, when the move is accepted, writes (set_sign).
OutsideAccess(N, command) ==
    LET cmd == [command EXCEPT ![1] = toupper(command[1])]
        idx == coordinates(cmd)[1] * numVertices(N) + coordinates(cmd)[2]
    IN IF FormatOk(N, cmd) /\ ~InArray(N, idx) THEN {idx} ELSE {}

\* The numbers of simulations per candidate explored (SIMUL is 1000).
SimCounts == 1..MaxSims

\* int computer: the player that is not the user (lines 704-711)
computer == IF user = 1 THEN 2 ELSE 1

gameVars == <<loop, moveCount, movesAI, valid, winner, user, goesNext, entry>>

\* What isReachable answers for a side on a graph of the current size.
Won(gr, p) ==
    isReachable(sizeofBoard, gr, get_startNode(sizeofBoard, p),
                get_endNode(sizeofBoard, p), SignOf(p))

\* The history of the answers after a stone is set, giving graph gr.
Observe(gr) ==
    [x |-> Won(gr, 1), o |-> Won(gr, 2),
     pastWin |-> oracle.pastWin \/ oracle.x \/ oracle.o]

(***************************************************************************)
(* Monte Carlo move selection: availablePositions, monteCarloSims,         *)
(* probMonteCarlo.  A probability is kept as its numerator over numsim:    *)
(* bestprob = -numsim stands for -1.0 and numwins for numwins / numsim;    *)
(* (w / n) * n = w holds exactly in double arithmetic for the n used here  *)
(* and for n = 1000.                                                       *)
(***************************************************************************)
\* Every order std::shuffle can leave the elements of S in.
RECURSIVE Shuffles(_)
Shuffles(S) ==
    IF S = {} THEN {<<>>}
    ELSE UNION {{<<x>> \o p : p \in Shuffles(S \ {x})} : x \in S}

\* hexGame::availablePositions: the Empty cells, shuffled
availablePositions(N, gr) == Shuffles(EmptyCells(N, gr))

\* Graph currentG: the default-constructed graph, its vectors empty
DefaultGraph == [adjMatrix |-> [k \in {} |-> 0], sign |-> [k \in {} |-> "."]]

\* Mutant of OtherPlayer: the player stays the same.
OtherPlayer_Same(p) == p

\* (goesNext * 2) % 3: from 1 to 2 and from 2 to 1
OtherPlayer(p) == (p * 2) % 3

\* Mutant of ContinueSims: the wins so far are left out of the bound.
ContinueSims_NoWins(it, numsim, numwins, bestProb) ==
    it < numsim /\ (numsim - it) > bestProb

\* The condition of the while loop of probMonteCarlo:
\* (it < numsim) && ((numsim - it) + numwins > bestProb * numsim)
ContinueSims(it, numsim, numwins, bestProb) ==
    it < numsim /\ (numsim - it) + numwins > bestProb

\* Mutant of InitialBestprob: 0.0 instead of -1.0.
InitialBestprob_Zero(numsim) == 0

\* double bestprob = -1.0
InitialBestprob(numsim) == 0 - numsim

\* Mutant of PlayoutStartGraph: the copy currentG = g is left out.
PlayoutStartGraph_Stale(gcopy, currentG) == currentG

\* currentG = g at the top of every simulation
PlayoutStartGraph(gcopy, currentG) == gcopy

\* The state of a call of monteCarloSims that has not started or has ended.
McIdle ==
    [pc |-> "idle", playerNum |-> 0, numsim |-> 0, candidates |-> <<>>, ci |-> 0,
     bestMove |-> <<0, 0>>, bestprob |-> 0,
     gc |-> DefaultGraph, winnerG |-> 0, winner |-> 0, it |-> 0, numwins |-> 0,
     currentG |-> DefaultGraph, available |-> <<>>, total |-> 0, posptr |-> 0,
     goesNext |-> 0, cut |-> FALSE, caller |-> DefaultGraph,
     refMove |-> <<0, 0>>, refprob |-> 0]

\* monteCarloSims up to the for loop: bestMove is value-initialised to (0, 0).
McEntered(gr, playerNum, numsim, candidates) ==
    [McIdle EXCEPT !.pc = "for", !.caller = gr, !.playerNum = playerNum, !.numsim = numsim,
                   !.candidates = candidates, !.ci = 1,
                   !.bestprob = InitialBestprob(numsim),
                   !.refprob = InitialBestprob(numsim)]

\* for (auto i : candidates): probMonteCarlo is entered for the next
\* candidate; its parameter g is a copy of the caller's graph.
McCandidate ==
    /\ mc.pc = "for"
    /\ mc.ci <= Len(mc.candidates)
    /\ LET i == mc.candidates[mc.ci]
           gcopy == PlaceOn(sizeofBoard, g, i[1], i[2], SignOf(mc.playerNum))
           winnerG == winnerAI(sizeofBoard, gcopy, mc.playerNum)
       IN mc' = [mc EXCEPT !.pc = "while", !.gc = gcopy, !.winnerG = winnerG,
                           !.winner = winnerG, !.it = 0, !.numwins = 0,
                           !.currentG = DefaultGraph]
    /\ UNCHANGED <<sizeofBoard, g, oracle, gameVars>>

\* The for loop is over: monteCarloSims returns bestMove.
McReturn ==
    /\ mc.pc = "for"
    /\ mc.ci > Len(mc.candidates)
    /\ mc' = [mc EXCEPT !.pc = "ret"]
    /\ UNCHANGED <<sizeofBoard, g, oracle, gameVars>>

\* The head of a simulation, lines 575-581.
SimBegin ==
    /\ mc.pc = "while"
    /\ ContinueSims(mc.it, mc.numsim, mc.numwins, mc.bestprob)
    /\ \E available \in availablePositions(sizeofBoard, mc.gc) :
          mc' = [mc EXCEPT !.pc = "inner",
                           !.goesNext = OtherPlayer(mc.playerNum),
                           !.currentG = PlayoutStartGraph(mc.gc, mc.currentG),
                           !.available = available,
                           !.total = Len(available),
                           !.posptr = 1]
    /\ UNCHANGED <<sizeofBoard, g, oracle, gameVars>>

\* One pass of while (winner == 0), lines 583-599.  *posptr at the end of
\* the vector reads behind it: the call is then at "fault".
InnerStep ==
    /\ mc.pc = "inner"
    /\ mc.winner = 0
    /\ IF mc.posptr > Len(mc.available)
       THEN mc' = [mc EXCEPT !.pc = "fault"]
       ELSE LET ij == mc.available[mc.posptr]
                s == IF mc.goesNext = mc.playerNum
                     THEN SignOf(mc.playerNum)
                     ELSE SignOf(OtherPlayer(mc.playerNum))
                cg == PlaceOn(sizeofBoard, mc.currentG, ij[1], ij[2], s)
                total == mc.total - 1
            IN mc' = [mc EXCEPT !.currentG = cg,
                                !.total = total,
                                !.goesNext = OtherPlayer(mc.goesNext),
                                !.winner = IF total = 0
                                           THEN winnerAI(sizeofBoard, cg, mc.playerNum)
                                           ELSE mc.winner,
                                !.posptr = mc.posptr + 1]
    /\ UNCHANGED <<sizeofBoard, g, oracle, gameVars>>

\* The tail of a simulation, lines 601-606.  The locals that the next
\* simulation overwrites before reading them are cleared.
SimEnd ==
    /\ mc.pc = "inner"
    /\ mc.winner # 0
    /\ mc' = [mc EXCEPT !.pc = "while",
                        !.numwins = IF mc.winner = mc.playerNum
                                    THEN mc.numwins + 1 ELSE mc.numwins,
                        !.winner = mc.winnerG,
                        !.it = mc.it + 1,
                        !.available = <<>>, !.total = 0, !.posptr = 0,
                        !.goesNext = 0]
    /\ UNCHANGED <<sizeofBoard, g, oracle, gameVars>>

\* The wins the simulations that the loop condition skipped can add when
\* they are run all the same: any number when they are played out, all of
\* them or none when the candidate already decides the game.
SkippedWins ==
    IF mc.winnerG = mc.playerNum THEN {mc.numsim - mc.it}
    ELSE IF mc.winnerG # 0 THEN {0}
    ELSE 0..(mc.numsim - mc.it)

\* The while loop ends: probMonteCarlo returns numwins / numsim and the for
\* body of monteCarloSims compares it with bestprob (lines 608, 534-538).
\* refprob, refMove follow the same candidates with every simulation run.
WhileExit ==
    /\ mc.pc = "while"
    /\ ~ContinueSims(mc.it, mc.numsim, mc.numwins, mc.bestprob)
    /\ \E extra \in SkippedWins :
          LET i == mc.candidates[mc.ci]
              probMC == mc.numwins
              refMC == mc.numwins + extra
          IN mc' = [mc EXCEPT !.pc = "for", !.ci = mc.ci + 1,
                      !.bestprob = IF mc.bestprob < probMC THEN probMC ELSE mc.bestprob,
                      !.bestMove = IF mc.bestprob < probMC THEN i ELSE mc.bestMove,
                      !.refprob = IF mc.refprob < refMC THEN refMC ELSE mc.refprob,
                      !.refMove = IF mc.refprob < refMC THEN i ELSE mc.refMove,
                      !.gc = DefaultGraph, !.currentG = DefaultGraph,
                      !.winnerG = 0, !.winner = 0, !.it = 0, !.numwins = 0,
                      !.cut = mc.cut \/ mc.it < mc.numsim]
    /\ UNCHANGED <<sizeofBoard, g, oracle, gameVars>>

\* hexGame::aiMove after monteCarloSims has returned: the stone is set.
aiMoveGraph(N, gr, bestMove, playerNum) ==
    PlaceOn(N, gr, bestMove[1], bestMove[2], SignOf(playerNum))

(***************************************************************************)
(* The callers of monteCarloSims                                           *)
(***************************************************************************)
\* No playerMove call in the last step.
NoEntry == [command |-> <<>>, ret |-> FALSE, outside |-> {}]

\* aiMove is called on the current graph for either player, outside a game.
AiMoveCall ==
    /\ loop = "off"
    /\ mc.pc = "idle"
    /\ \E playerNum \in {1, 2}, numsim \in SimCounts :
       \E candidates \in availablePositions(sizeofBoard, g) :
          mc' = McEntered(g, playerNum, numsim, candidates)
    /\ UNCHANGED <<sizeofBoard, g, oracle, gameVars>>

\* aiMove, lines 507-513, outside a game: the stone is set at bestMove.
AiMoveReturn ==
    /\ loop = "off"
    /\ mc.pc = "ret"
    /\ g' = aiMoveGraph(sizeofBoard, g, mc.bestMove, mc.playerNum)
    /\ oracle' = Observe(g')
    /\ mc' = McIdle
    /\ UNCHANGED <<sizeofBoard, gameVars>>

(***************************************************************************)
(* Game::start: the turn loop                                              *)
(***************************************************************************)
\* The characters tried in commands on a board of size N: the column
\* letters and the one behind them, a lowercase letter, the row digits with
\* 0 and the one above N.
Alphabet(N) == (CharA..(CharA + N)) \cup {97} \cup (Char0..(Char0 + N + 1))

\* The commands tried: every string of one or two of these characters and
\* the three-character strings over 'A', '0', '1'.
Commands(N) ==
    {<<a>> : a \in Alphabet(N)}
    \cup {<<a, b>> : a \in Alphabet(N), b \in Alphabet(N)}
    \cup {<<a, b, c>> : a \in {CharA}, b \in {Char0, Char1}, c \in {Char0, Char1}}

\* What a read of memory the program never wrote can return, as far as
\* validMove tells values apart: '.' or another byte.
Garbage == {".", "?"}

\* The end of a pass of the while loop, lines 746-750: the value of loop and
\* of goesNext for the next pass.
AfterPass(w, v) ==
    [loop |-> IF w # 0 THEN "over" ELSE "run",
     goesNext |-> IF w = 0 /\ v THEN OtherPlayer(goesNext) ELSE goesNext]

\* The human's pass of the loop, lines 731-751, for a command other than "-1".
HumanEntry ==
    /\ loop = "run"
    /\ goesNext = user
    /\ \E cmd \in Commands(sizeofBoard), garbage \in Garbage :
          LET r == playerMove(sizeofBoard, g, cmd, user, garbage)
              count == IF r.valid THEN moveCount + 1 ELSE moveCount
              w == IF r.valid /\ count >= sizeofBoard
                   THEN winnerAI(sizeofBoard, r.g, user) ELSE winner
          IN /\ g' = r.g
             /\ oracle' = IF r.valid THEN Observe(r.g) ELSE oracle
             /\ valid' = r.valid
             /\ moveCount' = count
             /\ winner' = w
             /\ loop' = AfterPass(w, r.valid).loop
             /\ goesNext' = AfterPass(w, r.valid).goesNext
             /\ entry' = [command |-> cmd, ret |-> r.valid,
                          outside |-> OutsideAccess(sizeofBoard, cmd)]
    /\ UNCHANGED <<sizeofBoard, mc, movesAI, user>>

\* The human enters "-1": validMove ends the program (lines 430-433).
Quit ==
    /\ loop = "run"
    /\ goesNext = user
    /\ loop' = "quit"
    /\ entry' = NoEntry
    /\ UNCHANGED <<sizeofBoard, g, oracle, mc, moveCount, movesAI, valid, winner,
                   user, goesNext>>

\* The computer's pass of the loop up to the call of monteCarloSims.
ComputerBegin ==
    /\ loop = "run"
    /\ goesNext # user
    /\ \E numsim \in SimCounts :
       \E candidates \in availablePositions(sizeofBoard, g) :
          mc' = McEntered(g, computer, numsim, candidates)
    /\ loop' = "ai"
    /\ entry' = NoEntry
    /\ UNCHANGED <<sizeofBoard, g, oracle, moveCount, movesAI, valid, winner,
                   user, goesNext>>

\* The rest of the computer's pass, lines 507-513 and 723-750.
ComputerEnd ==
    /\ loop = "ai"
    /\ mc.pc = "ret"
    /\ LET g1 == aiMoveGraph(sizeofBoard, g, mc.bestMove, computer)
           w == IF movesAI + 1 >= sizeofBoard
                THEN winnerAI(sizeofBoard, g1, computer) ELSE winner
       IN /\ g' = g1
          /\ oracle' = Observe(g1)
          /\ movesAI' = movesAI + 1
          /\ winner' = w
          /\ loop' = AfterPass(w, valid).loop
          /\ goesNext' = AfterPass(w, valid).goesNext
    /\ mc' = McIdle
    /\ UNCHANGED <<sizeofBoard, moveCount, valid, user, entry>>

(***************************************************************************)
(* Specifications                                                          *)
(***************************************************************************)
\* Nothing runs: the fresh graph of a board of size N.
Fresh(N) ==
    /\ sizeofBoard = N
    /\ g = NewGraph(N)
    /\ oracle = [x |-> isReachable(N, NewGraph(N), get_startNode(N, 1),
                                   get_endNode(N, 1), "X"),
                 o |-> isReachable(N, NewGraph(N), get_startNode(N, 2),
                                   get_endNode(N, 2), "O"),
                 pastWin |-> FALSE]
    /\ mc = McIdle
    /\ moveCount = 0
    /\ movesAI = 0
    /\ valid = TRUE
    /\ winner = 0
    /\ goesNext = 1
    /\ entry = NoEntry

Init ==
    /\ \E N \in BoardSizes : Fresh(N)
    /\ loop = "off"
    /\ user = 0

\* One stone of either side on an Empty cell, outside a game.
PlaceStone ==
    /\ loop = "off"
    /\ mc.pc = "idle"
    /\ \E c \in Cells(sizeofBoard), p \in {1, 2} :
          /\ get_sign(sizeofBoard, g, c[1], c[2]) = "."
          /\ g' = PlaceOn(sizeofBoard, g, c[1], c[2], SignOf(p))
    /\ oracle' = Observe(g')
    /\ UNCHANGED <<sizeofBoard, mc, gameVars>>

Next == PlaceStone

\* Stones are placed in any order on boards up to MaxN.
Spec == Init /\ [][Next]_vars

InitMC ==
    /\ \E N \in 2..MaxPlayN : Fresh(N)
    /\ loop = "off"
    /\ user = 0

NextMC ==
    \/ PlaceStone
    \/ AiMoveCall
    \/ McCandidate
    \/ McReturn
    \/ SimBegin
    \/ InnerStep
    \/ SimEnd
    \/ WhileExit
    \/ AiMoveReturn

\* aiMove is called on any board that placements build.
SpecMC == InitMC /\ [][NextMC]_vars

\* Game::start at the head of the loop: the user is player 1 or player 2.
InitGame ==
    /\ \E N \in 2..MaxPlayN : Fresh(N)
    /\ loop = "run"
    /\ user \in {1, 2}

NextGame ==
    \/ HumanEntry
    \/ Quit
    \/ ComputerBegin
    \/ McCandidate
    \/ McReturn
    \/ SimBegin
    \/ InnerStep
    \/ SimEnd
    \/ WhileExit
    \/ ComputerEnd

\* The turn loop of Game::start.
SpecGame == InitGame /\ [][NextGame]_vars

(***************************************************************************)
(* Reference connectivity on coordinates                                   *)
(***************************************************************************)
\* The six hex neighbours of a cell that lie on the board.
HexNeighbours(N, c) ==
    {d \in Cells(N) :
        <<d[1] - c[1], d[2] - c[2]>> \in
            {<<-1, 0>>, <<-1, 1>>, <<0, -1>>, <<0, 1>>, <<1, -1>>, <<1, 0>>}}

Owned(N, gr, p) == {c \in Cells(N) : get_sign(N, gr, c[1], c[2]) = SignOf(p)}

\* Cells on the side's start edge and on its end edge.
StartEdge(N, p) == {c \in Cells(N) : IF p = 1 THEN c[1] = 0 ELSE c[2] = 0}
EndEdge(N, p) == {c \in Cells(N) : IF p = 1 THEN c[1] = N - 1 ELSE c[2] = N - 1}

RECURSIVE Grow(_, _, _)
Grow(N, own, reached) ==
    LET more == {c \in own \ reached : HexNeighbours(N, c) \cap reached # {}}
    IN IF more = {} THEN reached ELSE Grow(N, own, reached \cup more)

\* A path start virtual - own cells - end virtual exists.
HasChain(N, gr, p) ==
    Grow(N, Owned(N, gr, p), Owned(N, gr, p) \cap StartEdge(N, p))
        \cap EndEdge(N, p) # {}

BoardFull(gr) == EmptyCells(sizeofBoard, gr) = {}

(***************************************************************************)
(* Connectivity and winner (Spec)                                          *)
(***************************************************************************)
\* C1: for both sides isReachable from the side's start virtual node to its
\* end virtual node is true exactly when a chain of the side's own cells joins
\* its two edges under the six-neighbour hex adjacency.
C1_ReachableIffChain ==
    \A p \in {1, 2} : Won(g, p) <=> HasChain(sizeofBoard, g, p)

\* C1 witness: a chain that needs the diagonal edge (x-1, y+1): X on (0,1)
\* and (1,0) only, on the 2x2 board, and isReachable answers true.
C1_Witness ==
    /\ sizeofBoard = 2
    /\ Owned(2, g, 1) = {<<0, 1>>, <<1, 0>>}
    /\ Won(g, 1)

\* C2: on a full board winnerAI returns 1 or 2, never 0, the same whichever
\* side is checked first, and exactly one side has a winning chain.
C2_NoDraw ==
    BoardFull(g) =>
        /\ winnerAI(sizeofBoard, g, 1) \in {1, 2}
        /\ winnerAI(sizeofBoard, g, 2) = winnerAI(sizeofBoard, g, 1)
        /\ Won(g, 1) # Won(g, 2)

\* C2 witness: a full 3x3 board that O wins.
C2_Witness ==
    /\ sizeofBoard = 3
    /\ BoardFull(g)
    /\ winnerAI(sizeofBoard, g, 1) = 2

\* The sign of the stone a step puts on the board.
PlacedSign(s) ==
    \E c \in Cells(sizeofBoard) :
        /\ get_sign(sizeofBoard, g, c[1], c[2]) = "."
        /\ get_sign(sizeofBoard, g', c[1], c[2]) = s

\* The side with a winning chain according to the recorded answers.
Reported(o) == IF o.x THEN 1 ELSE IF o.o THEN 2 ELSE 0

\* C3: in every state winnerAI, whichever side it checks first, reports the
\* side isReachable answers true for; a placement by side S keeps every
\* winning chain S has and creates none for the other side, so a side once
\* reported is reported after every later placement; and the two sides never
\* both have a winning chain.
C3_WinnerStable ==
    /\ [](/\ oracle.x = Won(g, 1)
          /\ oracle.o = Won(g, 2)
          /\ ~(oracle.x /\ oracle.o)
          /\ \A p \in {1, 2} : winnerAI(sizeofBoard, g, p) = Reported(oracle))
    /\ [][/\ oracle.x => oracle'.x
          /\ oracle.o => oracle'.o
          /\ (PlacedSign("X") /\ oracle'.o) => oracle.o
          /\ (PlacedSign("O") /\ oracle'.x) => oracle.x
          /\ Reported(oracle) # 0 => Reported(oracle') = Reported(oracle)]_vars

\* C3 witness: stones were placed after a side had won, the board is full
\* and the winner is X.
C3_Witness ==
    /\ oracle.pastWin
    /\ BoardFull(g)
    /\ winnerAI(sizeofBoard, g, 2) = 1

(***************************************************************************)
(* The turn loop (SpecGame)                                                *)
(***************************************************************************)
\* The sign stored for a virtual node: the constructor addresses it as
\* (node / sizeofBoard, node % sizeofBoard).
VirtualSign(gr, node) ==
    get_sign(sizeofBoard, gr, node \div sizeofBoard, node % sizeofBoard)

\* C4: in every state of the turn loop the four virtual nodes have the signs
\* of the constructor (North, South 'X'; West, East 'O'), and in every step
\* (an accepted or rejected human entry, a computer move) a real cell whose
\* sign changes was '.' and becomes 'X' or 'O', so that a sign once set is
\* never changed again.
C4_OccupancyMonotone ==
    /\ [](/\ VirtualSign(g, vnodeNorth(sizeofBoard)) = "X"
          /\ VirtualSign(g, vnodeSouth(sizeofBoard)) = "X"
          /\ VirtualSign(g, vnodeWest(sizeofBoard)) = "O"
          /\ VirtualSign(g, vnodeEast(sizeofBoard)) = "O")
    /\ [][\A c \in Cells(sizeofBoard) :
            LET before == get_sign(sizeofBoard, g, c[1], c[2])
                after == get_sign(sizeofBoard, g', c[1], c[2])
            IN after # before => (before = "." /\ after \in {"X", "O"})]_vars

\* C4 witness: the human names an occupied cell after both sides have moved,
\* and the entry is rejected.
C4_Witness ==
    /\ loop = "run"
    /\ moveCount >= 1
    /\ movesAI >= 1
    /\ entry # NoEntry
    /\ ~entry.ret
    /\ ~valid
    /\ FormatOk(sizeofBoard, entry.command)
    /\ LET xy == coordinates(entry.command)
       IN xy \in Cells(sizeofBoard)
          /\ get_sign(sizeofBoard, g, xy[1], xy[2]) # "."

\* The cell a command denotes: a column letter in A..(A+N-1), in either
\* case, followed by the decimal digits, without a leading 0, of a row in
\* 1..N; {} when the command denotes no cell of the board.
Denoted(N, command) ==
    LET letter == toupper(command[1])
        digits == SubSeq(command, 2, Len(command))
    IN IF /\ Len(command) \in {2, 3}
          /\ letter >= CharA
          /\ letter <= CharA + N - 1
          /\ \A k \in 1..Len(digits) : isdigit(digits[k])
          /\ digits[1] # Char0
          /\ stoi(digits) \in 1..N
       THEN {<<stoi(digits) - 1, letter - CharA>>}
       ELSE {}

\* C5: a human entry returns true and sets exactly the denoted cell to the
\* user's sign when the command denotes a cell of the board that is Empty;
\* in every other case it returns false and leaves the board unchanged; in
\* no case does it use a sign index outside the array.
C5_MoveRejection ==
    [][(loop = "run" /\ goesNext = user /\ entry' # NoEntry) =>
          LET cells == Denoted(sizeofBoard, entry'.command)
              ok == \E c \in cells : get_sign(sizeofBoard, g, c[1], c[2]) = "."
          IN /\ entry'.outside = {}
             /\ entry'.ret = ok
             /\ ok => \E c \in cells :
                         /\ g'.sign = [g.sign EXCEPT
                                ![c[1] * numVertices(sizeofBoard) + c[2]] = SignOf(user)]
                         /\ g' = PlaceOn(sizeofBoard, g, c[1], c[2], SignOf(user))
             /\ ~ok => g' = g]_vars

(***************************************************************************)
(* Move selection (SpecMC)                                                 *)
(***************************************************************************)
\* C6: when the board given to monteCarloSims has an Empty cell, the cell
\* it returns is Empty on that board, and after the first candidate has
\* been examined bestMove is a candidate and bestprob is no longer -1.
C6_ReturnsEmptyCell ==
    /\ (mc.pc = "ret" /\ EmptyCells(sizeofBoard, g) # {})
          => mc.bestMove \in EmptyCells(sizeofBoard, g)
    /\ (mc.pc = "for" /\ mc.ci = 2)
          => (mc.bestMove = mc.candidates[1] /\ mc.bestprob >= 0)

\* C6 witness: monteCarloSims returns on a board with two or more Empty
\* cells when no candidate has won a single playout.
C6_Witness ==
    /\ mc.pc = "ret"
    /\ Len(mc.candidates) >= 2
    /\ mc.bestprob = 0

\* C7: from the call of monteCarloSims to its return the caller's graph is
\* the one it passed, in signs and in edges; the graph of probMonteCarlo is
\* the caller's with the candidate's stone, and the graph at the start of
\* every playout holds exactly the caller's signs plus the candidate's.
C7_CloneIndependence ==
    mc.pc # "idle" =>
        /\ g = mc.caller
        /\ mc.pc \in {"while", "inner"} =>
              LET i == mc.candidates[mc.ci]
              IN mc.gc = PlaceOn(sizeofBoard, g, i[1], i[2], SignOf(mc.playerNum))
        /\ (mc.pc = "inner" /\ mc.posptr = 1) =>
              LET i == mc.candidates[mc.ci]
              IN /\ mc.currentG.sign =
                       [g.sign EXCEPT ![i[1] * numVertices(sizeofBoard) + i[2]] =
                                          SignOf(mc.playerNum)]
                 /\ mc.currentG = mc.gc

\* C7 witness: the second playout of a candidate starts, after the first
\* one has set stones on its copy.
C7_Witness ==
    /\ mc.pc = "inner"
    /\ mc.posptr = 1
    /\ mc.it = 1
    /\ Len(mc.available) >= 2
    /\ mc.winnerG = 0

\* C8: whenever a candidate has been dealt with, and at the return, the
\* best move and the best probability of the loop with the early cutoff are
\* those of the loop that runs all numsim playouts of every candidate, for
\* the same candidate order and the same outcomes of the playouts both run.
C8_CutoffEquivalence ==
    mc.pc \in {"for", "ret"} =>
        /\ mc.bestMove = mc.refMove
        /\ mc.bestprob = mc.refprob

\* C8 witness: monteCarloSims returns after the cutoff has ended the
\* playouts of some candidate early.
C8_Witness ==
    /\ mc.pc = "ret"
    /\ mc.cut
    /\ mc.numsim = MaxSims

\* The Empty cells that give the player a winning chain at once.
ImmediateWins(N, gr, playerNum) ==
    {c \in EmptyCells(N, gr) :
        isReachable(N, PlaceOn(N, gr, c[1], c[2], SignOf(playerNum)),
                    get_startNode(N, playerNum), get_endNode(N, playerNum),
                    SignOf(playerNum))}

\* C9: when some Empty cell wins at once for the player, monteCarloSims
\* returns such a cell.
C9_ImmediateWin ==
    (mc.pc = "ret" /\ ImmediateWins(sizeofBoard, g, mc.playerNum) # {})
        => mc.bestMove \in ImmediateWins(sizeofBoard, g, mc.playerNum)

\* C10: on a board with no Empty cell a call of aiMove changes nothing: no
\* stone is placed and no occupied cell is overwritten.
C10_NoMoveOnFullBoard ==
    [][BoardFull(g) => g' = g]_vars

(***************************************************************************)
(* Symmetry (Spec)                                                         *)
(***************************************************************************)
\* The cells of the board in row order.
CellSeq(N) == [k \in 1..(N * N) |-> <<(k - 1) \div N, (k - 1) % N>>]

\* 'X' for 'O' and 'O' for 'X'
SwapSign(s) == IF s = "X" THEN "O" ELSE IF s = "O" THEN "X" ELSE s

\* The graph that holds, for every stone of gr at (r, c), a stone of the
\* other sign at (c, r): the stones are set on a fresh graph as playerMove
\* and aiMove set them, from position k of CellSeq on.
RECURSIVE TransposeFrom(_, _, _, _)
TransposeFrom(N, gr, k, acc) ==
    IF k > N * N THEN acc
    ELSE LET c == CellSeq(N)[k]
             s == get_sign(N, gr, c[1], c[2])
         IN TransposeFrom(N, gr, k + 1,
                          IF s = "." THEN acc
                          ELSE PlaceOn(N, acc, c[2], c[1], SwapSign(s)))

Transposed(N, gr) == TransposeFrom(N, gr, 1, NewGraph(N))

\* The other player for a winner, 0 for no winner.
SwapWinner(w) == IF w = 0 THEN 0 ELSE 3 - w

\* C11: the board transposed with X and O swapped has the opposite winner:
\* winnerAI, whichever side it checks first, reports 1 on one exactly when
\* it reports 2 on the other, and 0 on one exactly when 0 on the other.
C11_Symmetry ==
    LET t == Transposed(sizeofBoard, g)
    IN \A p \in {1, 2} :
          winnerAI(sizeofBoard, t, p) = SwapWinner(winnerAI(sizeofBoard, g, p))

\* C11 witness: a 3x3 board, not full, that X wins and whose transpose
\* is another board, which O wins.
C11_Witness ==
    /\ sizeofBoard = 3
    /\ ~BoardFull(g)
    /\ winnerAI(sizeofBoard, g, 1) = 1
    /\ Transposed(sizeofBoard, g).sign # g.sign
    /\ winnerAI(sizeofBoard, Transposed(sizeofBoard, g), 1) = 2

(***************************************************************************)
(* Winner detection and alternation in the turn loop (SpecGame)            *)
(***************************************************************************)
\* The side with a chain of its own cells between its two edges, 0 for none.
ChainSide(gr) ==
    IF HasChain(sizeofBoard, gr, 1) THEN 1
    ELSE IF HasChain(sizeofBoard, gr, 2) THEN 2 ELSE 0

\* C12: although winnerAI is called only once the mover has made at least
\* sizeofBoard moves, the recorded winner is, after every pass of the loop,
\* the side that has a winning chain on the board, and 0 when no side has
\* one; and no step changes a graph on which a side has a winning chain.
C12_PromptWinner ==
    /\ [](winner = ChainSide(g))
    /\ [][g' # g => ChainSide(g) = 0]_vars

(***************************************************************************)
(* Playouts (SpecMC)                                                       *)
(***************************************************************************)
\* The graph gc after the first k cells of the permutation have been taken
\* in turn, the opponent of playerNum taking the first, third, ... cell.
RECURSIVE PlayoutGraph(_, _, _, _, _)
PlayoutGraph(N, gc, available, k, playerNum) ==
    IF k = 0 THEN gc
    ELSE LET c == available[k]
             s == IF k % 2 = 1 THEN SignOf(3 - playerNum) ELSE SignOf(playerNum)
         IN PlaceOn(N, PlayoutGraph(N, gc, available, k - 1, playerNum),
                    c[1], c[2], s)

\* C13: in a simulation for a candidate that does not decide the game, the
\* permutation holds each of the m Empty cells left by the candidate once;
\* after k passes of the inner loop the first k of them hold stones of
\* alternating sides, the opponent's first, and the others are Empty;
\* winnerAI is consulted only when all m are set, the loop then stops and
\* never reads behind the permutation; and the simulation is counted as a
\* win exactly when winnerAI reports the player on the full board.
C13_PlayoutShape ==
    /\ [](mc.pc # "fault")
    /\ []((mc.pc = "inner" /\ mc.winnerG = 0) =>
            LET m == Len(mc.available)
                k == mc.posptr - 1
                left == EmptyCells(sizeofBoard, mc.gc)
            IN /\ m = Cardinality(left)
               /\ {mc.available[j] : j \in 1..m} = left
               /\ k \in 0..m
               /\ mc.total = m - k
               /\ mc.currentG = PlayoutGraph(sizeofBoard, mc.gc, mc.available, k,
                                             mc.playerNum)
               /\ EmptyCells(sizeofBoard, mc.currentG) =
                     {mc.available[j] : j \in (k + 1)..m}
               /\ mc.goesNext = IF k % 2 = 0 THEN 3 - mc.playerNum ELSE mc.playerNum
               /\ k < m => mc.winner = 0
               /\ k = m => mc.winner = winnerAI(sizeofBoard, mc.currentG, mc.playerNum)
               /\ k = m => mc.winner # 0)
    /\ [][(mc.pc = "inner" /\ mc.winnerG = 0 /\ mc'.pc = "while") =>
            /\ mc.posptr = Len(mc.available) + 1
            /\ mc'.it = mc.it + 1
            /\ mc'.numwins = mc.numwins +
                  (IF winnerAI(sizeofBoard, mc.currentG, mc.playerNum) = mc.playerNum
                   THEN 1 ELSE 0)]_vars

\* C13 witness: a playout over three Empty cells has set all of them and
\* winnerAI reports the player.
C13_Witness ==
    /\ mc.pc = "inner"
    /\ mc.winnerG = 0
    /\ Len(mc.available) = 3
    /\ mc.posptr = 4
    /\ mc.winner = mc.playerNum

(***************************************************************************)
(* The visited array of isReachable (Spec)                                 *)
(***************************************************************************)
\* C14: in the calls of isReachable that winnerAI makes, for either side on
\* any board, every index of visited that is read or written - by the
\* initialisation loop, the marking of the start node and the marking of
\* discovered nodes - is below the number of elements allocated.
C14_VisitedInBounds ==
    \A p \in {1, 2} :
        \A i \in visitedIndices(sizeofBoard, g, get_startNode(sizeofBoard, p),
                                get_endNode(sizeofBoard, p), SignOf(p)) :
            i >= 0 /\ i < visitedLen(sizeofBoard)

(***************************************************************************)
(* Alternation in the turn loop (SpecGame)                                 *)
(***************************************************************************)
\* The number of stones of a player on the board.
Stones(gr, p) == Cardinality(Owned(sizeofBoard, gr, p))

\* The cells whose sign a step changes.
ChangedCells ==
    {c \in Cells(sizeofBoard) :
        get_sign(sizeofBoard, g', c[1], c[2]) # get_sign(sizeofBoard, g, c[1], c[2])}

\* C15: for both role assignments the stones alternate X, O, X, ...: the
\* number of X stones minus the number of O stones is 0 or 1, the player to
\* move is player 1 when they are equal and player 2 otherwise, every pass
\* that is not a rejected entry sets exactly one stone, of the player to
\* move; a rejected human entry sets none and leaves the turn with the
\* human; and after a computer move that does not end the game the turn is
\* the human's.
C15_Alternation ==
    /\ [](Stones(g, 1) - Stones(g, 2) \in {0, 1})
    /\ [](loop \in {"run", "ai"} =>
            goesNext = IF Stones(g, 1) = Stones(g, 2) THEN 1 ELSE 2)
    /\ [][(loop = "run" /\ goesNext = user /\ entry' # NoEntry) =>
            IF entry'.ret
            THEN \E c \in Cells(sizeofBoard) :
                    /\ ChangedCells = {c}
                    /\ get_sign(sizeofBoard, g', c[1], c[2]) = SignOf(user)
            ELSE ChangedCells = {} /\ loop' = "run" /\ goesNext' = user]_vars
    /\ [][(loop = "ai" /\ loop' # "ai") =>
            /\ \E c \in Cells(sizeofBoard) :
                    /\ ChangedCells = {c}
                    /\ get_sign(sizeofBoard, g', c[1], c[2]) = SignOf(computer)
            /\ loop' = "run" => goesNext' = user]_vars

====
